---- MODULE Spec2Model ----
(***************************************************************************)
(* Model of the task manager: the App component (src/App.tsx), the         *)
(* TaskItem editor (src/unnamed/part_000, components/TaskItem) and the     *)
(* suggestion client (src/unnamed/part_001, services/geminiService).       *)
(*                                                                         *)
(* Strings are sequences of one-character strings, so that trim() and      *)
(* concatenation are computed.  A date string "YYYY-MM-DD" is the tuple    *)
(* <<y, m, d>> and the empty date string is <<>>.  The calendar is the     *)
(* window January 1970 in the time zone UTC, where local midnight of       *)
(* 1970-01-01 is the timestamp 0.  An optional number (dueDate?: number)   *)
(* is <<>> when undefined and <<n>> when it is the number n.               *)
(***************************************************************************)
EXTENDS Integers, Sequences, FiniteSets, TLC

\* ---------------------------------------------------------------- bounds
MaxAdds == 2        \* tasks created by addTask in one run of Spec
MaxDay == 2         \* days of January 1970 a date input can hold
MaxSubtasks == 2    \* subtask strings in one response of the service
MaxTextLen == 2     \* characters of a text handed to suggestSubtasks

\* ------------------------------------------------------- strings, dates
Space == " "
Blank == <<>>
\* The texts a user types and the service returns.
TypedTexts == { <<>>, <<Space>>, <<Space, "a", Space>> }
SubtaskTexts == { <<>>, <<"s">> }
\* The arrow and the space put in front of a subtask (the arrow is written ^).
SubtaskPrefix == <<"^", Space>>

RECURSIVE TrimStart(_)
TrimStart(s) ==
  IF s # <<>> /\ Head(s) = Space THEN TrimStart(Tail(s)) ELSE s

RECURSIVE TrimEnd(_)
TrimEnd(s) ==
  IF s # <<>> /\ s[Len(s)] = Space THEN TrimEnd(SubSeq(s, 1, Len(s) - 1)) ELSE s

\* String.prototype.trim
Trim(s) == TrimEnd(TrimStart(s))

MsPerDay == 24 * 60 * 60 * 1000
NoDate == <<>>
DateStrings == { <<1970, 1, d>> : d \in 1..MaxDay }
DateInputs == {NoDate} \cup DateStrings

\* new Date(y, m - 1, d).getTime(): local midnight of the day, in ms.
LocalMidnight(y, m, d) == ((y - 1970) * 365 + (m - 1) * 31 + (d - 1)) * MsPerDay

\* `${y}-${m}-${d}` of new Date(ts): the calendar day holding the timestamp.
FormatDate(ts) == <<1970, 1, (ts \div MsPerDay) + 1>>

\* const [y, m, d] = dateStr.split('-').map(Number); new Date(y, m - 1, d).getTime()
ParseDate(dateStr) ==
  IF dateStr # NoDate
    THEN <<LocalMidnight(dateStr[1], dateStr[2], dateStr[3])>>
    ELSE <<>>

Undefined == <<>>
IsPresent(opt) == opt # Undefined
\* JavaScript truthiness of an optional number: undefined and 0 are falsy.
Truthy(opt) == opt # Undefined /\ opt[1] # 0

\* ----------------------------------------------------------------- tasks
\* interface Task
NewTask(id, text, createdAt, dueDate) ==
  [id |-> id, text |-> text, completed |-> FALSE,
   createdAt |-> createdAt, dueDate |-> dueDate]

Filters == {"ALL", "ACTIVE", "COMPLETED"}

\* ------------------------------------------------------------ persistence
\* What localStorage holds under the key 'tasks': nothing (getItem returns
\* null), a string that is no JSON text (the empty string, or "{"), or the
\* JSON text of an array of objects.  A JSON object is a function from its
\* keys; JSON.stringify leaves out a key whose value is undefined.
Missing == [kind |-> "null", body |-> <<>>]
EmptyString == [kind |-> "raw", body |-> <<>>]
Garbage == [kind |-> "raw", body |-> <<"{">>]
JsonText(v) == [kind |-> "json", body |-> v]

JsonObject(t) ==
  IF IsPresent(t.dueDate)
    THEN [id |-> t.id, text |-> t.text, completed |-> t.completed,
          createdAt |-> t.createdAt, dueDate |-> t.dueDate[1]]
    ELSE [id |-> t.id, text |-> t.text, completed |-> t.completed,
          createdAt |-> t.createdAt]

\* JSON.stringify(tasks)
JsonStringify(ts) == JsonText([i \in 1..Len(ts) |-> JsonObject(ts[i])])

TaskOfObject(o) ==
  [id |-> o.id, text |-> o.text, completed |-> o.completed,
   createdAt |-> o.createdAt,
   dueDate |-> IF "dueDate" \in DOMAIN o THEN <<o.dueDate>> ELSE Undefined]

\* JSON.parse(saved) throws a SyntaxError on a string that is no JSON text.
JsonParses(saved) == saved.kind = "json"
JsonParse(saved) == [i \in 1..Len(saved.body) |-> TaskOfObject(saved.body[i])]

\* `saved ? ... : ...`: null and the empty string are falsy.
SavedTruthy(saved) == ~(saved.kind = "null" \/ (saved.kind = "raw" /\ saved.body = <<>>))

\* -------------------------------------------------------- derived list
\* The comparator without its first test.
CompareIgnoringCompleted(a, b, f, fd) ==
  IF fd # NoDate
    THEN b.createdAt - a.createdAt
  ELSE IF Truthy(a.dueDate) /\ Truthy(b.dueDate)
    THEN a.dueDate[1] - b.dueDate[1]
  ELSE IF Truthy(a.dueDate) THEN -1
  ELSE IF Truthy(b.dueDate) THEN 1
  ELSE b.createdAt - a.createdAt

\* The comparator handed to Array.prototype.sort.
Compare(a, b, f, fd) ==
  IF f = "ALL" /\ a.completed # b.completed
    THEN (IF a.completed THEN 1 ELSE -1)
  ELSE IF fd # NoDate
    THEN b.createdAt - a.createdAt
  ELSE IF Truthy(a.dueDate) /\ Truthy(b.dueDate)
    THEN a.dueDate[1] - b.dueDate[1]
  ELSE IF Truthy(a.dueDate) THEN -1
  ELSE IF Truthy(b.dueDate) THEN 1
  ELSE b.createdAt - a.createdAt

\* Array.prototype.sort is stable: an element goes behind every element
\* that does not compare greater than it.
RECURSIVE Insert(_, _, _, _)
Insert(x, s, f, fd) ==
  IF s = <<>> THEN <<x>>
  ELSE IF Compare(Head(s), x, f, fd) <= 0
    THEN <<Head(s)>> \o Insert(x, Tail(s), f, fd)
    ELSE <<x>> \o s

RECURSIVE SortTasks(_, _, _)
SortTasks(s, f, fd) ==
  IF s = <<>> THEN <<>>
  ELSE Insert(s[Len(s)], SortTasks(SubSeq(s, 1, Len(s) - 1), f, fd), f, fd)

\* 1. Filter by Status
StatusPass(t, f) ==
  CASE f = "ACTIVE" -> ~t.completed
    [] f = "COMPLETED" -> t.completed
    [] OTHER -> TRUE

\* 2. Filter by Date
DatePass(t, fd) ==
  IF ~Truthy(t.dueDate) THEN FALSE ELSE FormatDate(t.dueDate[1]) = fd

Keeps(t, f, fd) == StatusPass(t, f) /\ (fd # NoDate => DatePass(t, fd))

\* The useMemo of filteredTasks: the derived list.
Derived(ts, f, fd) == SortTasks(SelectSeq(ts, LAMBDA t : Keeps(t, f, fd)), f, fd)

\* With filter ALL and no date filter, result is the tasks array itself and
\* result.sort(...) sorts that array in place; otherwise filter() has made
\* a new array and tasks is left as it is.
TasksAfterRender(ts, f, fd) ==
  IF f = "ALL" /\ fd = NoDate THEN SortTasks(ts, f, fd) ELSE ts

\* ------------------------------------------------- the suggestion client
\* What the external service does with one request.
Outcomes ==
  { [kind |-> k, subtasks |-> <<>>] :
      k \in {"requestFails", "noText", "badJson", "noField"} }
  \cup { [kind |-> "ok", subtasks |-> s] :
           s \in UNION { [1..n -> SubtaskTexts] : n \in 0..MaxSubtasks } }
FailureKinds == {"requestFails", "noText", "badJson", "noField"}

Resolved(v) == [kind |-> "resolve", value |-> v]
Rejected == [kind |-> "reject", value |-> <<>>]
Returns(v) == [kind |-> "return", value |-> v]
Throws == [kind |-> "throw", value |-> <<>>]

\* The body of the try block: generateContent rejects, response.text is
\* empty, JSON.parse throws, or result.subtasks || [] is returned.
TryBlock(outcome) ==
  CASE outcome.kind = "requestFails" -> Throws
    [] outcome.kind = "noText" -> Returns(<<>>)
    [] outcome.kind = "badJson" -> Throws
    [] outcome.kind = "noField" -> Returns(<<>>)
    [] OTHER -> Returns(outcome.subtasks)

\* The try block with no catch around it: a throw rejects the promise.
NoCatchBlock(r) == IF r.kind = "throw" THEN Rejected ELSE Resolved(r.value)

\* catch (error) { console.error(...); return []; }
CatchBlock(r) == IF r.kind = "throw" THEN Resolved(<<>>) ELSE Resolved(r.value)

\* suggestSubtasks(taskText), for a configured or missing API key.
SuggestSubtasks(hasKey, outcome) ==
  IF ~hasKey THEN Resolved(<<>>) ELSE CatchBlock(TryBlock(outcome))

\* ------------------------------------------------------------- the store
\* addTask without its first line.
AddTaskUnguarded(ts, text, dateStr, id, now) ==
  <<NewTask(id, Trim(text), now, ParseDate(dateStr))>> \o ts

\* addTask(text, dateStr), with the id and the time it draws.
AddTask(ts, text, dateStr, id, now) ==
  IF Trim(text) = Blank THEN ts
  ELSE <<NewTask(id, Trim(text), now, ParseDate(dateStr))>> \o ts

\* toggleTask(id)
ToggleMap(ts, id) ==
  [i \in 1..Len(ts) |->
     IF ts[i].id = id THEN [ts[i] EXCEPT !.completed = ~ts[i].completed] ELSE ts[i]]

\* deleteTask(id)
DeleteFilter(ts, id) == SelectSeq(ts, LAMBDA t : t.id # id)

\* editTask(id, newText, newDueDate)
EditMap(ts, id, newText, newDueDate) ==
  [i \in 1..Len(ts) |->
     IF ts[i].id = id
       THEN [ts[i] EXCEPT !.text = newText, !.dueDate = newDueDate]
       ELSE ts[i]]

\* The same loop walking the array from its end.
RECURSIVE AddSuggestionsBackwards(_, _, _, _)
AddSuggestionsBackwards(ts, subs, id, now) ==
  IF subs = <<>> THEN ts
  ELSE AddSuggestionsBackwards(
         AddTask(ts, SubtaskPrefix \o subs[Len(subs)], NoDate, id, now),
         SubSeq(subs, 1, Len(subs) - 1), id + 1, now)

\* suggestions.forEach(sub => addTask(`<prefix> ${sub}`)), in array order.
RECURSIVE AddSuggestions(_, _, _, _)
AddSuggestions(ts, subs, id, now) ==
  IF subs = <<>> THEN ts
  ELSE AddSuggestions(AddTask(ts, SubtaskPrefix \o Head(subs), NoDate, id, now),
                      Tail(subs), id + 1, now)

\* ----------------------------------------------------------------- state
VARIABLES
  storage,        \* localStorage item 'tasks'
  phase,          \* "boot" before the first render, "running", or "crashed"
  tasks,          \* useState tasks
  filteredTasks,  \* the derived list of the last render
  filter,         \* useState filter
  filterDate,     \* useState filterDate
  newTaskText,    \* useState newTaskText
  newTaskDate,    \* useState newTaskDate
  isAiLoading,    \* useState isAiLoading
  requests,       \* the calls of suggestSubtasks that have not been resumed
  clock,          \* Date.now()
  nextId,         \* ids handed out so far + 1 (crypto.randomUUID is fresh)
  emptySave,      \* history: the last step was a handleSave with a text
                  \* that is empty once trimmed
  returned        \* history: the subtasks the await gave handleAiBreakdown
                  \* in the last step

vars == <<storage, phase, tasks, filteredTasks, filter, filterDate, newTaskText,
          newTaskDate, isAiLoading, requests, clock, nextId, emptySave,
          returned>>

\* The session starts at 1970-01-02T00:00:00.000; every handler that adds a
\* task runs one millisecond after the one before it.
StartClock == MsPerDay
\* getTodayDate()
TodayDate == FormatDate(clock)

StoredValues == { Missing, EmptyString, Garbage, JsonStringify(<<>>) }

Init ==
  /\ storage \in StoredValues
  /\ phase = "boot"
  /\ tasks = <<>>
  /\ filteredTasks = <<>>
  /\ filter = "ALL"
  /\ filterDate = NoDate
  /\ newTaskText = <<>>
  /\ newTaskDate = NoDate
  /\ isAiLoading = FALSE
  /\ requests = <<>>
  /\ clock = StartClock
  /\ nextId = 1
  /\ emptySave = FALSE
  /\ returned = <<>>

\* The effect writing the list as it was before the render sorted it.
PersistThenRender(ts, f, fd) ==
  /\ tasks' = TasksAfterRender(ts, f, fd)
  /\ filteredTasks' = Derived(ts, f, fd)
  /\ storage' = JsonStringify(ts)

\* A render after setTasks: useMemo recomputes the derived list (sorting
\* tasks in place when it is the array sorted), and then the effect on
\* [tasks] writes the list to the storage.
RenderAndPersist(ts, f, fd) ==
  /\ tasks' = TasksAfterRender(ts, f, fd)
  /\ filteredTasks' = Derived(ts, f, fd)
  /\ storage' = JsonStringify(TasksAfterRender(ts, f, fd))

\* A render after a change of filter or filterDate: tasks is the same
\* array, so the effect does not run.
RenderOnly(f, fd) ==
  /\ tasks' = TasksAfterRender(tasks, f, fd)
  /\ filteredTasks' = Derived(tasks, f, fd)
  /\ UNCHANGED storage

\* The lazy initializer of useState(tasks): throws when JSON.parse throws.
InitializerThrows(saved) == SavedTruthy(saved) /\ ~JsonParses(saved)
InitialTasks(saved) == IF SavedTruthy(saved) THEN JsonParse(saved) ELSE <<>>

\* The first render of App and its effects.
Mount ==
  /\ phase = "boot"
  /\ IF InitializerThrows(storage)
       THEN /\ phase' = "crashed"
            /\ UNCHANGED <<storage, tasks, filteredTasks, newTaskDate>>
       ELSE /\ phase' = "running"
            /\ newTaskDate' = TodayDate
            /\ RenderAndPersist(InitialTasks(storage), filter, filterDate)
  /\ UNCHANGED <<filter, filterDate, newTaskText, isAiLoading, requests, clock,
                 nextId, emptySave, returned>>

\* The handlers run once App is mounted.
Idle == phase = "running"

\* disabled={isAiLoading} of the text input
TextInputDisabled == isAiLoading
\* disabled={!newTaskText.trim() || isAiLoading} of the AI button
AiButtonDisabledOnEmptyOnly(text) == Trim(text) = Blank
AiButtonDisabled(text) == Trim(text) = Blank \/ isAiLoading
\* disabled={!newTaskText.trim() || isAiLoading} of the add button
AddButtonDisabled(text) == Trim(text) = Blank \/ isAiLoading

\* onChange of the text input: setNewTaskText(e.target.value)
SetNewTaskText ==
  /\ Idle
  /\ ~TextInputDisabled
  /\ \E text \in TypedTexts : text # newTaskText /\ newTaskText' = text
  /\ emptySave' = FALSE
  /\ returned' = <<>>
  /\ UNCHANGED <<storage, phase, tasks, filteredTasks, filter, filterDate,
                 newTaskDate, isAiLoading, requests, clock, nextId>>

\* onChange of the date input: setNewTaskDate(e.target.value)
SetNewTaskDate ==
  /\ Idle
  /\ \E dateStr \in DateInputs : dateStr # newTaskDate /\ newTaskDate' = dateStr
  /\ emptySave' = FALSE
  /\ returned' = <<>>
  /\ UNCHANGED <<storage, phase, tasks, filteredTasks, filter, filterDate,
                 newTaskText, isAiLoading, requests, clock, nextId>>

\* The tasks a call of addTask has put into the list ts (setTasks is called
\* when there is one).
Added(ts) == Len(ts) - Len(tasks)

\* handleAddTask with the form holding text and dateStr, from a click on
\* the add button or Enter in the text input
HandleAddTaskOf(text, dateStr) ==
  /\ Idle
  /\ ~AddButtonDisabled(text) \/ ~TextInputDisabled
  /\ nextId + Added(AddTask(tasks, text, dateStr, nextId, clock)) <= MaxAdds + 1
  /\ IF Added(AddTask(tasks, text, dateStr, nextId, clock)) > 0
       THEN RenderAndPersist(AddTask(tasks, text, dateStr, nextId, clock),
                             filter, filterDate)
       ELSE UNCHANGED <<tasks, filteredTasks, storage>>
  /\ nextId' = nextId + Added(AddTask(tasks, text, dateStr, nextId, clock))
  /\ clock' = clock + Added(AddTask(tasks, text, dateStr, nextId, clock))
  /\ newTaskText' = <<>>
  /\ newTaskDate' = FormatDate(clock)
  /\ emptySave' = FALSE
  /\ returned' = <<>>
  /\ UNCHANGED <<phase, filter, filterDate, isAiLoading, requests>>

HandleAddTask == HandleAddTaskOf(newTaskText, newTaskDate)

RenderedIds == { filteredTasks[i].id : i \in 1..Len(filteredTasks) }

\* onToggle of a rendered TaskItem
ToggleTask ==
  /\ Idle
  /\ \E id \in RenderedIds :
       RenderAndPersist(ToggleMap(tasks, id), filter, filterDate)
  /\ emptySave' = FALSE
  /\ returned' = <<>>
  /\ UNCHANGED <<phase, filter, filterDate, newTaskText, newTaskDate,
                 isAiLoading, requests, clock, nextId>>

\* onDelete of a rendered TaskItem
DeleteTask ==
  /\ Idle
  /\ \E id \in RenderedIds :
       RenderAndPersist(DeleteFilter(tasks, id), filter, filterDate)
  /\ emptySave' = FALSE
  /\ returned' = <<>>
  /\ UNCHANGED <<phase, filter, filterDate, newTaskText, newTaskDate,
                 isAiLoading, requests, clock, nextId>>

\* if (editText.trim()) of handleSave
SaveGuardMissing(editText) == TRUE
SaveGuard(editText) == Trim(editText) # Blank

\* handleSave of the TaskItem of task id, with the text and the date typed
\* into it: onEdit(task.id, editText.trim(), newDueDate), or the revert of
\* the TaskItem's own fields.
HandleSaveOf(id, editText, editDate) ==
  /\ Idle
  /\ id \in RenderedIds
  /\ IF SaveGuard(editText)
       THEN RenderAndPersist(
              EditMap(tasks, id, Trim(editText), ParseDate(editDate)),
              filter, filterDate)
       ELSE UNCHANGED <<tasks, filteredTasks, storage>>
  /\ emptySave' = (Trim(editText) = Blank)
  /\ returned' = <<>>
  /\ UNCHANGED <<phase, filter, filterDate, newTaskText, newTaskDate,
                 isAiLoading, requests, clock, nextId>>

HandleSave ==
  \E id \in RenderedIds, editText \in TypedTexts, editDate \in DateInputs :
    HandleSaveOf(id, editText, editDate)

\* setFilter(f)
SetFilter ==
  /\ Idle
  /\ \E f \in Filters : filter' = f /\ RenderOnly(f, filterDate)
  /\ emptySave' = FALSE
  /\ returned' = <<>>
  /\ UNCHANGED <<phase, filterDate, newTaskText, newTaskDate, isAiLoading,
                 requests, clock, nextId>>

\* setFilterDate(d), and the button that clears the date filter
SetFilterDate ==
  /\ Idle
  /\ \E d \in DateInputs : filterDate' = d /\ RenderOnly(filter, d)
  /\ emptySave' = FALSE
  /\ returned' = <<>>
  /\ UNCHANGED <<phase, filter, newTaskText, newTaskDate, isAiLoading,
                 requests, clock, nextId>>

\* --------------------------------------------------------- AI breakdown
Pending == [kind |-> "pending", value |-> <<>>]

\* The primary task of a breakdown: the task addTask makes with the id it
\* draws, of the typed text, trimmed, with the date.
IsPrimary(t, id, text, dateStr) ==
  t.id = id /\ t.text = Trim(text) /\ t.dueDate = ParseDate(dateStr) /\ ~t.completed

HasPrimary(ts, id, text, dateStr) ==
  \E i \in 1..Len(ts) : IsPrimary(ts[i], id, text, dateStr)

\* The tasks state as it is when suggestSubtasks is called (line 83):
\* addTask (line 80) has only queued its updater with setTasks, which is
\* applied in the render that follows once the handler has yielded at the
\* await; the state is still the list of the render the click came from.
StoreAtRequest(ts, text, dateStr, id, now) == ts

\* handleAiBreakdown up to its await, with the form holding text and
\* dateStr, from a click on the AI button, and the render that follows it:
\* the request is issued over the store as it was (history:
\* primaryInStore), then the queued updates are applied and persisted.
HandleAiBreakdownOf(text, dateStr) ==
  /\ Idle
  /\ ~AiButtonDisabled(text)
  /\ nextId + 1 <= MaxAdds + 1
  /\ IF Trim(text) = Blank
       THEN UNCHANGED <<storage, tasks, filteredTasks, isAiLoading, requests,
                        nextId, clock>>
       ELSE /\ isAiLoading' = TRUE
            /\ RenderAndPersist(AddTask(tasks, text, dateStr, nextId, clock),
                                filter, filterDate)
            /\ nextId' = nextId + 1
            /\ clock' = clock + 1
            /\ requests' = Append(requests,
                 [text |-> text,
                  captured |-> tasks,
                  primaryInStore |->
                    HasPrimary(StoreAtRequest(tasks, text, dateStr, nextId, clock),
                               nextId, text, dateStr),
                  result |-> Pending])
  /\ newTaskText' = text
  /\ newTaskDate' = dateStr
  /\ emptySave' = FALSE
  /\ returned' = <<>>
  /\ UNCHANGED <<phase, filter, filterDate>>

HandleAiBreakdown == HandleAiBreakdownOf(newTaskText, newTaskDate)

RemoveAt(s, i) == SubSeq(s, 1, i - 1) \o SubSeq(s, i + 1, Len(s))

\* The list an updater written against the tasks constant of the render
\* that made the handler would start from: setTasks([newTask, ...tasks]).
PrevCapturedByRender(current, request) == request.captured
\* The prev of setTasks(prev => [newTask, ...prev]) in addTask: the list as
\* it is when the update is applied; the tasks constant of the render in
\* which the handler of the request was made (history: captured) is not
\* read.
PrevOfSetTasks(current, request) == current

\* The rest of handleAiBreakdown, run with what the awaited call gave:
\* the subtasks are added and the form is reset, or the rejection is
\* caught; finally isAiLoading is cleared.
Continuation(i, result) ==
  /\ IF result.kind = "resolve"
       THEN /\ IF result.value # <<>>
                 THEN /\ RenderAndPersist(
                           AddSuggestions(PrevOfSetTasks(tasks, requests[i]),
                                          result.value, nextId, clock),
                           filter, filterDate)
                      /\ clock' = clock + 1
                 ELSE UNCHANGED <<tasks, filteredTasks, storage, clock>>
            /\ nextId' = nextId + Len(result.value)
            /\ newTaskText' = <<>>
            /\ newTaskDate' = FormatDate(clock)
       ELSE UNCHANGED <<tasks, filteredTasks, storage, nextId, clock,
                        newTaskText, newTaskDate>>
  /\ isAiLoading' = FALSE
  /\ requests' = RemoveAt(requests, i)
  /\ emptySave' = FALSE
  /\ returned' = result.value
  /\ UNCHANGED <<phase, filter, filterDate>>

\* Request i settles and handleAiBreakdown resumes behind its await in the
\* same turn of the event loop: the API key is configured or not, and the
\* service answers in one of its ways.
AiBreakdownResumesOf(i, hasKey, outcome) ==
  /\ phase = "running"
  /\ i \in 1..Len(requests)
  /\ requests[i].result = Pending
  /\ Continuation(i, SuggestSubtasks(hasKey, outcome))

\* The resumptions that keep a run within MaxAdds tasks.
AiBreakdownResumes ==
  \E i \in 1..Len(requests), hasKey \in BOOLEAN, outcome \in Outcomes :
    /\ nextId + Len(SuggestSubtasks(hasKey, outcome).value) <= MaxAdds + 1
    /\ AiBreakdownResumesOf(i, hasKey, outcome)

Next ==
  \/ Mount
  \/ SetNewTaskText
  \/ SetNewTaskDate
  \/ HandleAddTask
  \/ ToggleTask
  \/ DeleteTask
  \/ HandleSave
  \/ SetFilter
  \/ SetFilterDate
  \/ HandleAiBreakdown
  \/ AiBreakdownResumes

Spec == Init /\ [][Next]_vars

\* ------------------------------------------- suggestSubtasks on its own
\* Every call suggestSubtasks(taskText): the texts of up to MaxTextLen
\* characters, the API key configured or not, every answer of the service.
SuggestTexts == UNION { [1..n -> {Space, "a"}] : n \in 0..MaxTextLen }

InitSuggest ==
  /\ storage = JsonStringify(<<>>)
  /\ phase = "running"
  /\ tasks = <<>>
  /\ filteredTasks = <<>>
  /\ filter = "ALL"
  /\ filterDate = NoDate
  /\ \E t \in SuggestTexts :
       /\ newTaskText = t
       /\ requests = <<[text |-> t, hasKey |-> FALSE,
                        outcome |-> [kind |-> "none", subtasks |-> <<>>],
                        result |-> Pending]>>
  /\ newTaskDate = NoDate
  /\ isAiLoading = TRUE
  /\ clock = StartClock
  /\ nextId = 1
  /\ emptySave = FALSE
  /\ returned = <<>>

\* The call settles with what suggestSubtasks makes of the configuration
\* and the answer.
SuggestSettles ==
  /\ \E i \in 1..Len(requests), hasKey \in BOOLEAN, outcome \in Outcomes :
       /\ requests[i].result = Pending
       /\ requests' = [requests EXCEPT ![i] =
            [text |-> requests[i].text, hasKey |-> hasKey, outcome |-> outcome,
             result |-> SuggestSubtasks(hasKey, outcome)]]
  /\ UNCHANGED <<storage, phase, tasks, filteredTasks, filter, filterDate,
                 newTaskText, newTaskDate, isAiLoading, clock, nextId, emptySave,
                 returned>>

NextSuggest == SuggestSettles

SpecSuggest == InitSuggest /\ [][NextSuggest]_vars

\* ------------------------------------- the await of handleAiBreakdown
\* One breakdown from the click to the resumption, with every response of
\* up to MaxSubtasks strings.  The stores it can start from: up to
\* MaxAdds - 1 tasks made by addTask one millisecond apart (the others
\* deleted), toggled and edited in any way, in any order the render leaves
\* them in.
AwaitFirstId == MaxAdds

AwaitTask(id) ==
  { [id |-> id, text |-> <<"a">>, completed |-> c,
     createdAt |-> StartClock + id - 1, dueDate |-> d] :
      c \in BOOLEAN, d \in { ParseDate(ds) : ds \in DateInputs } }

AwaitStores ==
  {<<>>} \cup UNION { { s \in [1..n -> UNION { AwaitTask(id) : id \in 1..(AwaitFirstId - 1) }] :
                          \A i, j \in 1..n : i # j => s[i].id # s[j].id } :
                      n \in 1..(AwaitFirstId - 1) }

\* The AI button is about to be clicked: the form holds a text that is not
\* blank and any date, over any store and any filters.
InitAwait ==
  /\ phase = "running"
  /\ filter \in Filters
  /\ filterDate \in DateInputs
  /\ tasks \in AwaitStores
  /\ tasks = TasksAfterRender(tasks, filter, filterDate)
  /\ filteredTasks = Derived(tasks, filter, filterDate)
  /\ storage = JsonStringify(tasks)
  /\ newTaskText \in { text \in TypedTexts : Trim(text) # Blank }
  /\ newTaskDate \in DateInputs
  /\ isAiLoading = FALSE
  /\ requests = <<>>
  /\ clock = StartClock + AwaitFirstId - 1
  /\ nextId = AwaitFirstId
  /\ emptySave = FALSE
  /\ returned = <<>>

\* handleAiBreakdown resumes with any response.
AwaitResumes ==
  \E i \in 1..Len(requests), hasKey \in BOOLEAN, outcome \in Outcomes :
    AiBreakdownResumesOf(i, hasKey, outcome)

\* The click, then what can happen until the handler has resumed: the list,
\* the filters and the date input stay interactive, the text input and the
\* add controls are disabled.
NextAwait ==
  \/ (nextId = AwaitFirstId /\ HandleAiBreakdown)
  \/ (requests # <<>> /\ ToggleTask)
  \/ (requests # <<>> /\ DeleteTask)
  \/ (requests # <<>> /\ HandleSave)
  \/ (requests # <<>> /\ SetFilter)
  \/ (requests # <<>> /\ SetFilterDate)
  \/ (requests # <<>> /\ SetNewTaskDate)
  \/ (requests # <<>> /\ AwaitResumes)

SpecAwait == InitAwait /\ [][NextAwait]_vars

\* ---------------------------------------------------------------- claims
InList(t, ts) == \E k \in 1..Len(ts) : ts[k] = t
Range(ts) == { ts[k] : k \in 1..Len(ts) }

\* C1: with no date filter, any two tasks of the derived list that are in
\* the same completion group are ordered: a task with a dueDate before a
\* task without one, two dated tasks by ascending dueDate, two undated
\* tasks by descending createdAt; for every dueDate, the timestamp 0 too.
C1_DueDateOrder ==
  filterDate = NoDate =>
    \A i, j \in 1..Len(filteredTasks) :
      (i < j /\ filteredTasks[i].completed = filteredTasks[j].completed) =>
        LET a == filteredTasks[i]
            b == filteredTasks[j]
        IN /\ ~(~IsPresent(a.dueDate) /\ IsPresent(b.dueDate))
           /\ (IsPresent(a.dueDate) /\ IsPresent(b.dueDate)
                 => a.dueDate[1] <= b.dueDate[1])
           /\ (~IsPresent(a.dueDate) /\ ~IsPresent(b.dueDate)
                 => a.createdAt >= b.createdAt)

\* C2: with filter ALL, with or without a date filter, every incomplete
\* task of the derived list comes before every completed task of it.
C2_IncompleteBeforeCompleted ==
  filter = "ALL" =>
    \A i, j \in 1..Len(filteredTasks) :
      (~filteredTasks[i].completed /\ filteredTasks[j].completed) => i < j

\* A derived list under ALL where a completed task that is dated and older
\* stands behind an incomplete task that is undated and newer.
C2_Witness ==
  /\ filter = "ALL"
  /\ \E i, j \in 1..Len(filteredTasks) :
       /\ i < j
       /\ ~filteredTasks[i].completed /\ filteredTasks[j].completed
       /\ ~IsPresent(filteredTasks[i].dueDate) /\ Truthy(filteredTasks[j].dueDate)
       /\ filteredTasks[i].createdAt > filteredTasks[j].createdAt

\* C3: with a date filter set, a task is in the derived list exactly when
\* it passes the status filter, has a dueDate, and that dueDate falls on
\* the calendar day of the filter date; for every dueDate, 0 too.
C3_DateFilterMembership ==
  filterDate # NoDate =>
    \A k \in 1..Len(tasks) :
      InList(tasks[k], filteredTasks) <=>
        /\ StatusPass(tasks[k], filter)
        /\ IsPresent(tasks[k].dueDate)
        /\ FormatDate(tasks[k].dueDate[1]) = filterDate

\* C4: from an empty store, after any sequence of adds, AI breakdowns,
\* saves, toggles and deletes, the text of every task in the store is
\* non-empty after trimming.
C4_TextNeverBlank ==
  \A k \in 1..Len(tasks) : Trim(tasks[k].text) # Blank

\* The store holds the task made of an empty subtask string, and the last
\* step was a save of an empty text.
C4_Witness ==
  /\ emptySave
  /\ \E k \in 1..Len(tasks) : tasks[k].text = Trim(SubtaskPrefix \o <<>>)

\* C5: a save with an empty text (empty once trimmed), whatever the date
\* typed with it, leaves the text and the dueDate of its task, and of every
\* task of the store, as they were before the save.
C5_EmptyEditKeepsTask ==
  [][ emptySave' =>
        \A k \in 1..Len(tasks) :
          \E m \in 1..Len(tasks') :
            /\ tasks'[m].id = tasks[k].id
            /\ tasks'[m].text = tasks[k].text
            /\ tasks'[m].dueDate = tasks[k].dueDate ]_vars

\* The last step was a save of an empty text while a dated task is shown.
C5_Witness ==
  /\ emptySave
  /\ \E k \in 1..Len(filteredTasks) : IsPresent(filteredTasks[k].dueDate)

\* C6: whatever the storage holds under 'tasks' at startup, initialization
\* completes without an error.
C6_StartupNeverFails == phase # "crashed"

\* C7: after a store mutation (a step that adds, removes or changes a
\* task) and its persistence write, the value under 'tasks' is the
\* serialization of the whole in-memory list: it parses to the same tasks,
\* with the same field values, in the same order.
C7_StorageMirrorsTasks ==
  [][ Range(tasks') # Range(tasks) =>
        /\ storage' = JsonStringify(tasks')
        /\ JsonParses(storage')
        /\ JsonParse(storage') = tasks' ]_vars

\* The storage mirrors a store of a dated and an undated task, one of them
\* completed, under a filter that leaves the array unsorted.
C7_Witness ==
  /\ storage = JsonStringify(tasks)
  /\ filter # "ALL"
  /\ \E k, m \in 1..Len(tasks) :
       /\ IsPresent(tasks[k].dueDate) /\ ~IsPresent(tasks[m].dueDate)
       /\ tasks[k].completed
       /\ k > m

\* C8: suggestSubtasks never rejects; without an API key, when the request
\* fails, when the response has no text, when the text is no JSON, when
\* the JSON has no subtasks field, it resolves with the empty list.
C8_SuggestNeverRejects ==
  \A i \in 1..Len(requests) :
    requests[i].result # Pending =>
      /\ requests[i].result.kind = "resolve"
      /\ (~requests[i].hasKey \/ requests[i].outcome.kind \in FailureKinds)
           => requests[i].result.value = <<>>

\* A call with a key whose response text is no JSON has settled.
C8_Witness ==
  \E i \in 1..Len(requests) :
    /\ requests[i].hasKey
    /\ requests[i].outcome.kind = "badJson"
    /\ requests[i].result = Resolved(<<>>)

\* tasks2 is tasks1 and one new task for each string of subs: the k-th
\* string makes the k-th new id, with the prefixed text, no dueDate and
\* completed = FALSE; no task of tasks1 is missing or changed.
SubtasksAdded(tasks1, tasks2, subs, firstId, now) ==
  /\ Len(tasks2) = Len(tasks1) + Len(subs)
  /\ \A k \in 1..Len(subs) :
       InList(NewTask(firstId + k - 1, Trim(SubtaskPrefix \o subs[k]), now, Undefined),
              tasks2)
  /\ \A k \in 1..Len(tasks1) : InList(tasks1[k], tasks2)

\* C9 as stated: in an AI breakdown the primary task is in the store when
\* the suggestion request is issued; no task is added while the request is
\* outstanding; when the response arrives each returned string is added in
\* the order returned, as a new task with no dueDate and completed = FALSE.
C9_BreakdownOrder ==
  [][ /\ \A i \in 1..Len(requests') : requests'[i].primaryInStore
      /\ (requests # <<>> /\ requests' = requests) => nextId' = nextId
      /\ Len(requests') < Len(requests) =>
           SubtasksAdded(tasks, tasks', returned', nextId, clock) ]_vars

\* C9 amended: the store holds the primary task, made of the typed text
\* and date, once the click on the AI button has been handled, that is in
\* the first state in which the request is outstanding, with every other
\* task kept; no task is created or added while the request is
\* outstanding; when the response arrives each returned string is added in
\* the order returned, as a new task with no dueDate and completed = FALSE.
C9_PrimaryThenSubtasks ==
  [][ /\ Len(requests') > Len(requests) =>
           /\ InList(NewTask(nextId, Trim(newTaskText), clock, ParseDate(newTaskDate)),
                     tasks')
           /\ Len(tasks') = Len(tasks) + 1
           /\ \A k \in 1..Len(tasks) : InList(tasks[k], tasks')
           /\ nextId' = nextId + 1
      /\ (requests # <<>> /\ requests' = requests) =>
           /\ nextId' = nextId
           /\ Len(tasks') <= Len(tasks)
      /\ Len(requests') < Len(requests) =>
           SubtasksAdded(tasks, tasks', returned', nextId, clock) ]_vars

\* A breakdown has ended whose two subtasks, the first made of the empty
\* string, stand in the store with consecutive ids behind their primary.
C9_Witness ==
  /\ requests = <<>> /\ ~isAiLoading
  /\ \E p, a, b \in 1..Len(tasks) :
       /\ tasks[p].text = Trim(<<Space, "a", Space>>)
       /\ Truthy(tasks[p].dueDate)
       /\ tasks[a].text = Trim(SubtaskPrefix \o <<>>)
       /\ tasks[b].text = SubtaskPrefix \o <<"s">>
       /\ tasks[a].id = tasks[p].id + 1
       /\ tasks[b].id = tasks[a].id + 1
       /\ tasks[a].createdAt = tasks[b].createdAt
       /\ ~IsPresent(tasks[a].dueDate) /\ ~IsPresent(tasks[b].dueDate)

\* C10: at most one suggestion request is outstanding; while one is, no
\* second breakdown and no plain add is started: no task is created and
\* the form keeps its text until the request has completed.
C10_OneRequestAtATime ==
  [][ /\ Len(requests') <= 1
      /\ (requests # <<>> /\ requests' = requests) =>
           /\ isAiLoading /\ isAiLoading'
           /\ nextId' = nextId
           /\ newTaskText' = newTaskText ]_vars

\* A request is outstanding while the user has completed a task and
\* changed the status filter.
C10_Witness ==
  /\ Len(requests) = 1 /\ isAiLoading
  /\ filter = "COMPLETED"
  /\ \E k \in 1..Len(tasks) : tasks[k].completed /\ tasks[k].text = Trim(requests[1].text)

\* C11: computing the derived list leaves the store as it is: a step that
\* only changes the status filter or the date filter, and so only runs the
\* derivation, leaves the task list with the same tasks in the same order.
C11_DerivationLeavesStore ==
  [][ (filter' # filter \/ filterDate' # filterDate) => tasks' = tasks ]_vars

\* C12: no update is lost across the awaited request.  The step that adds
\* the returned subtasks keeps every task that is in the store when the
\* response arrives exactly as it is then, so with every toggle and edit
\* made while the request was in flight, and brings in no other task than
\* the new subtasks, so no task deleted in flight comes back.
C12_NoLostUpdate ==
  [][ Len(requests') < Len(requests) =>
        /\ \A t \in Range(tasks) : t \in Range(tasks')
        /\ \A t \in Range(tasks') : t \in Range(tasks) \/ t.id >= nextId
        /\ Len(tasks') = Len(tasks) + Len(returned') ]_vars

\* The subtasks of a breakdown have just been added behind an older task;
\* its primary task, the task created right before them by the click, was
\* toggled while the request was in flight.
C12_Witness ==
  /\ requests = <<>> /\ returned # <<>>
  /\ \E p, a, o \in 1..Len(tasks) :
       /\ tasks[a].id = nextId - Len(returned)
       /\ tasks[p].id = tasks[a].id - 1
       /\ tasks[p].completed
       /\ tasks[o].id < tasks[p].id
====
